---- MODULE Spec2Model ----
(***************************************************************************)
(* Model of the outreach-planner agent: the pipeline orchestrator          *)
(* (agent.ts), the key-value store it shares with the REST routes          *)
(* (api/index.ts), and the landing-page generator's sandbox life cycle     *)
(* (generators/landing-page.ts).                                           *)
(*                                                                         *)
(* Every await on an external collaborator (completion, sandbox, store)    *)
(* is one step: the single-threaded event loop runs the code between two   *)
(* awaits without interruption, and any other task may run at an await.    *)
(***************************************************************************)
EXTENDS Integers, Sequences, FiniteSets, TLC

(* ------------------------------ bounds -------------------------------- *)

MaxRuns == 2          \* invocations of the agent when served one at a time
MaxConcRuns == 1      \* invocations of the agent when served concurrently
MaxBatch == 2         \* longest signals_created list of a webhook
MaxDeletes == 1       \* DELETE /signals/:id requests
MaxStoreFaults == 1   \* store calls that throw, over the whole behaviour
MaxInFlight == 3      \* per-signal tasks and route requests in flight at once

IDs == {"a", "b"}
(* The IDs the store may hold a record for: those of the requests and one *)
(* more, stored before the requests.                                      *)
Keys == IDs \cup {"c"}
Runs == 1..MaxRuns
Slots == 1..MaxBatch
Dels == 1..MaxDeletes
TaskIds == Runs \X Slots

(* An optional value: <<>> is undefined/null, <<x>> is x. *)
None == <<>>
Some(x) == <<x>>

RECURSIVE SeqsUpTo(_, _)
SeqsUpTo(S, n) ==
  IF n = 0 THEN {<<>>}
  ELSE LET shorter == SeqsUpTo(S, n - 1)
       IN shorter \cup {<<x>> \o s : x \in S, s \in {q \in shorter : Len(q) = n - 1}}

Includes(s, x) == \E i \in 1..Len(s) : s[i] = x
FilterShift(s, x) == IF s = <<>> THEN s ELSE Tail(s)
Filter(s, x) == SelectSeq(s, LAMBDA y : y # x)
Count(s, x) == Cardinality({i \in 1..Len(s) : s[i] = x})

(* ------------------------------ values -------------------------------- *)

KV_INDEX_KEY == "signal:index"
SignalKey(id) == "signal:" \o id

Html == "<!DOCTYPE html><html>...</html>"

OutreachErrors == {"No response from LLM", "Unexpected end of JSON input"}
KvError == "kv request failed"

EmptyOutreach ==
  [email |-> [subject |-> "", body |-> ""], linkedin |-> "", twitter |-> "",
   callPoints |-> <<>>, summary |-> ""]

GeneratedOutreach ==
  [email |-> [subject |-> "s", body |-> "b"], linkedin |-> "l", twitter |-> "t",
   callPoints |-> <<"p">>, summary |-> "y"]

(* The entities the enrichment client attaches to a fetched signal. *)
EntitiesOf(id) == <<[entity_type |-> "company", id |-> id]>>

(* The Signal with a given id; the other fields the pipeline reads are   *)
(* the same for every signal here.                                        *)
SignalOf(id) == [id |-> id, company |-> "Acme", type |-> "funding"]

InlineEnriched(id) ==
  [signal |-> SignalOf(id), entities |-> <<>>, linktSignal |-> None]

FetchedEnriched(id) ==
  [signal |-> SignalOf(id), entities |-> EntitiesOf(id), linktSignal |-> Some(id)]

(* The record built on the success path. *)
GeneratedRecord(es, outreach, landingPageResult) ==
  [signal |-> es.signal, entities |-> es.entities, linktSignal |-> es.linktSignal,
   outreach |-> outreach,
   landingPageHtml |-> landingPageResult,
   status |-> "generated"]

ErrorRecordUnknown(es, errorMessage) ==
  [signal |-> es.signal, entities |-> es.entities, linktSignal |-> es.linktSignal,
   outreach |-> EmptyOutreach,
   status |-> "error",
   error |-> "Unknown error"]

ErrorRecordPending(es, errorMessage) ==
  [signal |-> es.signal, entities |-> es.entities, linktSignal |-> es.linktSignal,
   outreach |-> EmptyOutreach,
   status |-> "pending",
   error |-> errorMessage]

(* The record built in the catch block. *)
ErrorRecord(es, errorMessage) ==
  [signal |-> es.signal, entities |-> es.entities, linktSignal |-> es.linktSignal,
   outreach |-> EmptyOutreach,
   status |-> "error",
   error |-> errorMessage]

NotFound == [exists |-> FALSE]
Found(d) == [exists |-> TRUE, data |-> d]

(* The .catch the orchestrator puts on generateLandingPage, then `?? undefined`. *)
LandingOutcomes == {"html", "null", "throw"}
LandingError == "landing page step failed"
LandingUncaught(o) == o
LandingCatch(o) == IF o = "throw" THEN "null" ELSE o
LandingOption(l) == IF l = "html" THEN Some(Html) ELSE None

(* ------------------------------ inputs -------------------------------- *)

(* The README's test body: a top-level 'signal', no event_type and no     *)
(* data.resources.signals_created.                                        *)
ReadmePayload(id) == [signal |-> Some(SignalOf(id)), signals_created |-> None]

(* What the code reads of a posted body: its top-level 'signal' and its   *)
(* data.resources.signals_created.                                        *)
Payloads ==
  {[signal |-> None, signals_created |-> None]} \cup
  {[signal |-> None, signals_created |-> Some(s)] : s \in SeqsUpTo(IDs, MaxBatch)} \cup
  {ReadmePayload(i) : i \in IDs}

SignalIdsOf(payload) ==
  IF payload.signals_created = None THEN <<>> ELSE payload.signals_created[1]

SamplePayload == [signal |-> None, signals_created |-> Some(<<"b">>)]

(* {signal?, webhook?}: a payload beside an inline signal is never read,  *)
(* so one sample payload stands for all of them there.                    *)
Inputs ==
  {[signal |-> None, webhook |-> None]} \cup
  {[signal |-> Some(i), webhook |-> None] : i \in IDs} \cup
  {[signal |-> Some(i), webhook |-> Some(SamplePayload)] : i \in IDs} \cup
  {[signal |-> None, webhook |-> Some(p)] : p \in Payloads}

IndexIds(ix) == IF ix.exists THEN ix.data ELSE <<>>

VARIABLES
  run,       \* per invocation: position in the handler, input, resolved signals, result
  task,      \* per (run, position): position in processEnrichedSignal and its locals
  records,   \* the store's 'signal:<id>' keys
  index,     \* the store's 'signal:index' key
  del,       \* per DELETE request: position in the route and its locals
  faults,    \* store calls that have thrown so far
  limit,     \* the scheduler admits a request while at most this many are in flight
  quota,     \* the invocations of the agent the scheduler admits in all
  lp,        \* one execution of generateLandingPage: position, sandbox, clock, result
  call       \* one call of a pure function: its name, argument and result

vars == <<run, task, records, index, del, faults, limit, quota, lp, call>>

(* What the handler's branches read of an input: which fields are set.   *)
(* bodySignal: the id of the 'signal' inside the webhook body, if any.     *)
(* regenerate: the call comes from the regenerate route.                  *)
KindOf(inp) ==
  [signal |-> inp.signal # None, webhook |-> inp.webhook # None,
   regenerate |-> FALSE,
   bodySignal |-> IF inp.webhook # None /\ inp.webhook[1].signal # None
                  THEN Some(inp.webhook[1].signal[1].id) ELSE None]

(* kind: the fields the input had. pending: the IDs still to resolve.     *)
(* sigs: the resolved signals. enriched: the enrichment client was       *)
(* called. outcomes: each per-signal result's success, in input order.   *)
(* sets, isets: the writes of 'signal:<id>' keys and of 'signal:index'   *)
(* the run's tasks have made.                                            *)
IdleRun == [pc |-> "idle",
            kind |-> [signal |-> FALSE, webhook |-> FALSE, regenerate |-> FALSE,
                      bodySignal |-> None],
            pending |-> <<>>, sigs |-> <<>>, enriched |-> FALSE,
            outcomes |-> <<>>, sets |-> 0, isets |-> 0, result |-> None]

IdleTask == [pc |-> "idle", path |-> "try", es |-> InlineEnriched("a"),
             outreach |-> "idle", landing |-> "idle", ids |-> <<>>,
             err |-> None]

IdleDel == [pc |-> "idle", id |-> "a", ids |-> <<>>]

(* sandbox: the handle, once create has returned one. ret: the value of  *)
(* the return statement reached; result: what the caller gets. creates,  *)
(* executes, reads, destroys: the sandbox calls made so far. elapsed:    *)
(* Date.now() - startTime, in ms. last: the outcome of the read just     *)
(* made, <<content>> or <<>> for a read that threw.                      *)
IdleLp == [pc |-> "idle", sandbox |-> None, creates |-> 0, executes |-> 0,
           reads |-> 0, destroys |-> 0, destroyFailed |-> FALSE, elapsed |-> 0,
           last |-> None,
           ret |-> None, result |-> None, threw |-> FALSE, caught |-> FALSE]

IdleCall == [fn |-> "none", arg |-> <<>>, out |-> None]

InitRequests ==
  /\ run = [r \in Runs |-> IdleRun]
  /\ task = [t \in TaskIds |-> IdleTask]
  /\ del = [d \in Dels |-> IdleDel]
  /\ faults = 0

InitStore ==
  /\ InitRequests
  /\ records = [i \in Keys |-> NotFound]
  /\ index = NotFound

(* The store an earlier webhook run for one signal has left behind. *)
StoreAfterRun(id) ==
  /\ InitRequests
  /\ records = [i \in Keys |->
                  IF i = id
                  THEN Found(GeneratedRecord(FetchedEnriched(id), GeneratedOutreach,
                                             Some(Html)))
                  ELSE NotFound]
  /\ index = Found(<<id>>)

(* Requests served concurrently, on a fresh store or on one that holds   *)
(* a signal already.                                                     *)
Init ==
  /\ InitStore \/ StoreAfterRun("a")
  /\ limit = MaxInFlight /\ quota = MaxConcRuns /\ lp = IdleLp /\ call = IdleCall

(* Requests served one at a time. *)
InitSeq == InitStore /\ limit = 1 /\ quota = MaxRuns /\ lp = IdleLp /\ call = IdleCall

(* ----------------------------- scheduling ----------------------------- *)

TaskSettled(t) == task[t].pc \in {"idle", "ret", "thrown"}
RunSettled(r) == run[r].pc \in {"idle", "returned", "raised", "notfound"}
DelSettled(d) == del[d].pc \in {"idle", "done", "failed"}

Quiescent ==
  /\ \A r \in Runs : RunSettled(r)
  /\ \A t \in TaskIds : TaskSettled(t)
  /\ \A d \in Dels : DelSettled(d)

Max(x, y) == IF x >= y THEN x ELSE y

RECURSIVE SumOver(_, _)
SumOver(S, f) ==
  IF S = {} THEN 0
  ELSE LET x == CHOOSE y \in S : TRUE IN f[x] + SumOver(S \ {x}, f)

(* Tasks and requests in flight; a run that is still resolving its       *)
(* signals counts for the tasks it may start.                            *)
RunLoad(r) ==
  IF run[r].pc \in {"enrich", "regen"} THEN Max(1, Len(run[r].pending))
  ELSE LET busy == Cardinality({s \in Slots : ~TaskSettled(<<r, s>>)})
       IN IF run[r].pc = "running" THEN Max(1, busy) ELSE busy

InFlight ==
  SumOver(Runs, [r \in Runs |-> RunLoad(r)])
  + Cardinality({d \in Dels : ~DelSettled(d)})

Admit(n) == InFlight + n <= limit

(* Run slots are taken in order, up to the quota. *)
FreeSlot(r) ==
  /\ r <= quota
  /\ run[r].pc = "idle"
  /\ IF r = 1 THEN TRUE ELSE run[r - 1].pc # "idle"

(* ------------------------------ handler ------------------------------- *)

NoSignalResult ==
  [success |-> FALSE, signalId |-> None,
   message |-> <<"No signal data provided or retrieved">>]

TaskResult(tk) ==
  IF tk.path = "try"
  THEN [success |-> TRUE, signalId |-> tk.es.signal.id,
        message |-> <<"Outreach generated for ", tk.es.signal.company, " (",
                      tk.es.signal.type, ")">>]
  ELSE [success |-> FALSE, signalId |-> tk.es.signal.id,
        message |-> <<"Failed to generate outreach: ", tk.err[1]>>]

AggregateFirstResult(results) ==
  LET successful == SelectSeq(results, LAMBDA x : x.success)
      failed == SelectSeq(results, LAMBDA x : ~x.success)
      message == IF Len(successful) > 0
                 THEN <<"Generated outreach for ", ToString(Len(successful)), " signal(s)">>
                 ELSE <<"Failed to generate outreach for ", ToString(Len(failed)), " signal(s)">>
  IN [success |-> Len(successful) > 0,
      signalId |-> IF Len(results) > 0 THEN Some(results[1].signalId) ELSE None,
      message |-> message]

(* handler, lines 74-85 *)
Aggregate(results) ==
  LET successful == SelectSeq(results, LAMBDA x : x.success)
      failed == SelectSeq(results, LAMBDA x : ~x.success)
      firstSignalId == IF Len(successful) > 0 THEN Some(successful[1].signalId)
                       ELSE IF Len(results) > 0 THEN Some(results[1].signalId)
                       ELSE None
      message == IF Len(successful) > 0
                 THEN <<"Generated outreach for ", ToString(Len(successful)), " signal(s)">>
                 ELSE <<"Failed to generate outreach for ", ToString(Len(failed)), " signal(s)">>
  IN [success |-> Len(successful) > 0, signalId |-> firstSignalId, message |-> message]

NoSignalsNever(enrichedSignals) == FALSE

(* line 63: if (!enrichedSignals.length) *)
NoSignals(enrichedSignals) == Len(enrichedSignals) = 0

(* The handler from the resolved list on: the early return, or the start  *)
(* of one processEnrichedSignal per signal, each up to its first await.   *)
Dispatch(r, kind, sigs, enriched) ==
  IF NoSignals(sigs)
  THEN /\ run' = [run EXCEPT ![r] = [IdleRun EXCEPT !.pc = "returned", !.kind = kind,
                                       !.sigs = sigs, !.enriched = enriched,
                                       !.result = Some(NoSignalResult)]]
       /\ UNCHANGED task
  ELSE /\ run' = [run EXCEPT ![r] = [IdleRun EXCEPT !.pc = "running", !.kind = kind,
                                       !.sigs = sigs, !.enriched = enriched]]
       /\ task' = [t \in TaskIds |->
                     IF t[1] = r /\ t[2] <= Len(sigs)
                     THEN [IdleTask EXCEPT !.pc = "gen", !.es = sigs[t[2]],
                                           !.outreach = "pending",
                                           !.landing = "pending"]
                     ELSE task[t]]

StartRunWebhookFirst(r, inp) ==
  /\ FreeSlot(r)
  /\ Admit(IF inp.webhook # None
           THEN Max(1, Len(SignalIdsOf(inp.webhook[1]))) ELSE 1)
  /\ IF inp.webhook # None
     THEN /\ run' = [run EXCEPT ![r].pc = "enrich", ![r].kind = KindOf(inp),
                                ![r].pending = SignalIdsOf(inp.webhook[1])]
          /\ UNCHANGED task
     ELSE IF inp.signal # None
     THEN Dispatch(r, KindOf(inp), <<InlineEnriched(inp.signal[1])>>, FALSE)
     ELSE Dispatch(r, KindOf(inp), <<>>, FALSE)
  /\ UNCHANGED <<records, index, del, faults, limit, quota, lp, call>>

(* handler, lines 42-68: input resolution up to the first await. *)
StartRun(r, inp) ==
  /\ FreeSlot(r)
  /\ Admit(IF inp.signal = None /\ inp.webhook # None
           THEN Max(1, Len(SignalIdsOf(inp.webhook[1]))) ELSE 1)
  /\ IF inp.signal # None
     THEN Dispatch(r, KindOf(inp), <<InlineEnriched(inp.signal[1])>>, FALSE)
     ELSE IF inp.webhook # None
     THEN /\ run' = [run EXCEPT ![r].pc = "enrich", ![r].kind = KindOf(inp),
                                ![r].pending = SignalIdsOf(inp.webhook[1])]
          /\ UNCHANGED task
     ELSE Dispatch(r, KindOf(inp), <<>>, FALSE)
  /\ UNCHANGED <<records, index, del, faults, limit, quota, lp, call>>

(* POST /webhook/linkt, lines 152-171: the body becomes the input's       *)
(* 'webhook' field, whatever it holds; the run is started in waitUntil.   *)
WebhookLinkt(r, data) == StartRun(r, [signal |-> None, webhook |-> Some(data)])

(* processSignalWebhook: the fetches settle (allSettled), the fulfilled   *)
(* non-null ones are kept in the order of signals_created.                *)
Resolved(signalIds, ok) ==
  LET kept == SelectSeq([i \in 1..Len(signalIds) |-> <<signalIds[i], ok[i]>>],
                        LAMBDA p : p[2])
  IN [i \in 1..Len(kept) |-> FetchedEnriched(kept[i][1])]

ProcessSignalWebhook(r) ==
  /\ run[r].pc = "enrich"
  /\ LET signalIds == run[r].pending
     IN \E ok \in [1..Len(signalIds) -> BOOLEAN] :
          Dispatch(r, run[r].kind, Resolved(signalIds, ok), Len(signalIds) > 0)
  /\ UNCHANGED <<records, index, del, faults, limit, quota, lp, call>>

RunTasks(r) == {t \in TaskIds : t[1] = r /\ t[2] <= Len(run[r].sigs)}

(* A task whose result has been consumed: its locals are gone; a        *)
(* landing-page step it left behind is still running.                    *)
Returned(tk) ==
  [IdleTask EXCEPT !.landing = IF tk.landing = "pending" THEN "pending" ELSE "idle"]

(* handler, lines 70-86: Promise.all over the per-signal tasks fulfilled. *)
Finish(r) ==
  /\ run[r].pc = "running"
  /\ \A t \in RunTasks(r) : task[t].pc = "ret"
  /\ LET results == [i \in 1..Len(run[r].sigs) |-> TaskResult(task[<<r, i>>])]
     IN run' = [run EXCEPT ![r].pc = "returned",
                  ![r].outcomes = [i \in 1..Len(results) |-> results[i].success],
                  ![r].result = Some(Aggregate(results))]
  /\ task' = [t \in TaskIds |-> IF t \in RunTasks(r) THEN Returned(task[t])
                                ELSE task[t]]
  /\ UNCHANGED <<records, index, del, faults, limit, quota, lp, call>>

(* Promise.all rejects with the first task that throws; the others go on. *)
Raise(r) ==
  /\ run[r].pc = "running"
  /\ \E t \in RunTasks(r) : task[t].pc = "thrown"
  /\ run' = [run EXCEPT ![r].pc = "raised"]
  /\ UNCHANGED <<task, records, index, del, faults, limit, quota, lp, call>>

(* ------------------------ processEnrichedSignal ----------------------- *)

OnRejectRethrow(tk, errorMessage) == [tk EXCEPT !.err = Some(errorMessage), !.pc = "thrown"]

(* lines 133-135: the catch block takes the rejection and goes on to     *)
(* build and write the error record.                                     *)
OnReject(tk, errorMessage) ==
  [tk EXCEPT !.err = Some(errorMessage), !.path = "catch", !.pc = "set"]

PromiseAnySettled(o, l) == TRUE

(* Promise.all (line 103) settles when every promise has fulfilled or as  *)
(* soon as one has rejected: with the outreach step fulfilled it waits    *)
(* for the landing-page step.                                             *)
PromiseAllSettled(o, l) == o = "ok" => l # "pending"

(* await Promise.all([generateOutreach(...), generateLandingPage(...).catch(...)]) *)
(* settles: fulfilled once both steps have, or rejected as soon as the    *)
(* outreach step throws, whether the landing-page step has settled (its   *)
(* result is dropped) or is still running.                                *)
PromiseAllSettle(t, o, l) ==
  /\ task[t].pc = "gen"
  /\ PromiseAllSettled(o, l)
  /\ task' = [task EXCEPT ![t] =
       IF o = "ok" /\ LandingCatch(l) # "throw"
       THEN [@ EXCEPT !.outreach = "ok", !.landing = LandingCatch(l), !.pc = "set"]
       ELSE OnReject([@ EXCEPT !.outreach = IF o = "ok" THEN "ok" ELSE "threw",
                               !.landing = IF l = "pending" THEN "pending"
                                           ELSE "dropped"],
                     IF o = "ok" THEN LandingError ELSE o)]
  /\ UNCHANGED <<run, records, index, del, faults, limit, quota, lp, call>>

(* The landing-page step a rejected Promise.all left behind settles. *)
LandingSettle(t) ==
  /\ task[t].landing = "pending"
  /\ task[t].pc # "gen"
  /\ task' = [task EXCEPT ![t].landing = IF task[t].pc = "idle" THEN "idle"
                                         ELSE "dropped"]
  /\ UNCHANGED <<run, records, index, del, faults, limit, quota, lp, call>>

BuildRecordMerged(tk) ==
  LET new == IF tk.path = "try"
             THEN GeneratedRecord(tk.es, GeneratedOutreach, LandingOption(tk.landing))
             ELSE ErrorRecord(tk.es, tk.err[1])
      old == records[tk.es.signal.id]
  IN IF old.exists
     THEN [f \in DOMAIN old.data \cup DOMAIN new |->
             IF f \in DOMAIN new THEN new[f] ELSE old.data[f]]
     ELSE new

(* The record the task is about to write: lines 113-121 or 137-151. *)
BuildRecord(tk) ==
  IF tk.path = "try"
  THEN GeneratedRecord(tk.es, GeneratedOutreach, LandingOption(tk.landing))
  ELSE ErrorRecord(tk.es, tk.err[1])

KvSetRecordUnawaited(t) ==
  /\ task[t].pc = "set"
  /\ task' = [task EXCEPT ![t].pc = "iget"]
  /\ run' = [run EXCEPT ![t[1]].sets = @ + 1]
  /\ UNCHANGED <<records, index, del, faults, limit, quota, lp, call>>

(* ctx.kv.set(KV_NAMESPACE, `signal:${signal.id}`, storedSignal) *)
KvSetRecord(t) ==
  /\ task[t].pc = "set"
  /\ LET id == task[t].es.signal.id
         rec == BuildRecord(task[t])
     IN /\ records' = [records EXCEPT ![id] = Found(rec)]
        /\ task' = [task EXCEPT ![t].pc = "iget"]
        /\ run' = [run EXCEPT ![t[1]].sets = @ + 1]
  /\ UNCHANGED <<index, del, faults, limit, quota, lp, call>>

NeedsInsertAlways(signalIds, signalId) == TRUE

(* line 171: if (!signalIds.includes(signalId)) *)
NeedsInsert(signalIds, signalId) == ~Includes(signalIds, signalId)

(* updateSignalIndex, lines 168-171: read the index, test membership. *)
IndexGet(t) ==
  /\ task[t].pc = "iget"
  /\ LET signalIds == IndexIds(index)
     IN task' = [task EXCEPT ![t] =
          IF NeedsInsert(signalIds, task[t].es.signal.id)
          THEN [@ EXCEPT !.pc = "iset", !.ids = signalIds]
          ELSE [@ EXCEPT !.pc = "ret"]]
  /\ UNCHANGED <<run, records, index, del, faults, limit, quota, lp, call>>

UnshiftAtEnd(signalIds, signalId) == signalIds \o <<signalId>>

(* line 172: signalIds.unshift(signalId) *)
Unshift(signalIds, signalId) == <<signalId>> \o signalIds

ListReadAgain(tk) == IndexIds(index)

(* line 172: the list unshift works on is the one line 168 read. *)
ListToWrite(tk) == tk.ids

(* updateSignalIndex, lines 172-173: unshift and write the list back. *)
IndexSet(t) ==
  /\ task[t].pc = "iset"
  /\ index' = Found(Unshift(ListToWrite(task[t]), task[t].es.signal.id))
  /\ task' = [task EXCEPT ![t].pc = "ret", ![t].ids = <<>>]
  /\ run' = [run EXCEPT ![t[1]].isets = @ + 1]
  /\ UNCHANGED <<records, del, faults, limit, quota, lp, call>>

InsideTryNever(tk) == FALSE

(* lines 102-132: the store calls of the success path (lines 123-124)     *)
(* are inside the try block.                                              *)
InsideTry(tk) == tk.path = "try"

KvFaultKeepsRecord(t) ==
  /\ task[t].pc \in {"set", "iget", "iset"}
  /\ faults < MaxStoreFaults
  /\ faults' = faults + 1
  /\ task' = [task EXCEPT ![t] =
       IF InsideTry(task[t])
       THEN [@ EXCEPT !.path = "catch", !.err = Some(KvError),
                      !.pc = IF task[t].pc = "set" THEN "set" ELSE "iget",
                      !.ids = <<>>]
       ELSE [@ EXCEPT !.pc = "thrown", !.ids = <<>>]]
  /\ UNCHANGED <<run, records, index, del, limit, quota, lp, call>>

(* A store call of the task throws: inside the try block the catch block  *)
(* takes over (line 133); inside the catch block the task throws.         *)
KvFault(t) ==
  /\ task[t].pc \in {"set", "iget", "iset"}
  /\ faults < MaxStoreFaults
  /\ faults' = faults + 1
  /\ task' = [task EXCEPT ![t] =
       IF InsideTry(task[t])
       THEN [@ EXCEPT !.path = "catch", !.err = Some(KvError), !.pc = "set",
                      !.ids = <<>>]
       ELSE [@ EXCEPT !.pc = "thrown", !.ids = <<>>]]
  /\ UNCHANGED <<run, records, index, del, limit, quota, lp, call>>

(* ------------------------------ REST routes --------------------------- *)

(* POST /signals/:id/regenerate, lines 225-228: look the record up. *)
RegenerateGet(r, id) ==
  /\ FreeSlot(r)
  /\ Admit(1)
  /\ run' = [run EXCEPT ![r] =
       IF records[id].exists
       THEN [@ EXCEPT !.pc = "regen",
                      !.kind = [signal |-> TRUE, webhook |-> FALSE,
                                regenerate |-> TRUE, bodySignal |-> None],
                      !.pending = <<records[id].data.signal.id>>]
       ELSE [@ EXCEPT !.pc = "notfound"]]
  /\ UNCHANGED <<task, records, index, del, faults, limit, quota, lp, call>>

RegenerateRunStored(r) ==
  /\ run[r].pc = "regen"
  /\ Dispatch(r, run[r].kind, <<FetchedEnriched(run[r].pending[1])>>, FALSE)
  /\ UNCHANGED <<records, index, del, faults, limit, quota, lp, call>>

(* line 231: outreachPlanner.run({ signal: result.data.signal }) *)
RegenerateRun(r) ==
  /\ run[r].pc = "regen"
  /\ Dispatch(r, run[r].kind, <<InlineEnriched(run[r].pending[1])>>, FALSE)
  /\ UNCHANGED <<records, index, del, faults, limit, quota, lp, call>>

(* DELETE /signals/:id, line 240: read the index. *)
DeleteGet(d, id) ==
  /\ del[d].pc = "idle"
  /\ IF d = 1 THEN TRUE ELSE del[d - 1].pc # "idle"
  /\ Admit(1)
  /\ del' = [del EXCEPT ![d] =
       [pc |-> IF index.exists THEN "set" ELSE "del", id |-> id,
        ids |-> IF index.exists THEN index.data ELSE <<>>]]
  /\ UNCHANGED <<run, task, records, index, faults, limit, quota, lp, call>>

(* lines 242-243: write the filtered list back. *)
DeleteSetIndex(d) ==
  /\ del[d].pc = "set"
  /\ index' = Found(Filter(del[d].ids, del[d].id))
  /\ del' = [del EXCEPT ![d].pc = "del"]
  /\ UNCHANGED <<run, task, records, faults, limit, quota, lp, call>>

(* line 247: delete the record. *)
DeleteRecord(d) ==
  /\ del[d].pc = "del"
  /\ records' = [records EXCEPT ![del[d].id] = NotFound]
  /\ del' = [del EXCEPT ![d].pc = "done"]
  /\ UNCHANGED <<run, task, index, faults, limit, quota, lp, call>>

(* A store call of the route throws: the request fails where it is. *)
DeleteFault(d) ==
  /\ del[d].pc \in {"set", "del"}
  /\ faults < MaxStoreFaults
  /\ faults' = faults + 1
  /\ del' = [del EXCEPT ![d].pc = "failed"]
  /\ UNCHANGED <<run, task, records, index, limit, quota, lp, call>>

(* The lists of distinct IDs. *)
DistinctSeqs(S) ==
  {q \in SeqsUpTo(S, Cardinality(S)) : \A i, j \in 1..Len(q) : i # j => q[i] # q[j]}

(* A store that earlier runs have left: no index at all, or an index of   *)
(* distinct IDs with a generated record for each.                         *)
InitDelete ==
  /\ InitRequests
  /\ \/ index = NotFound /\ records = [i \in Keys |-> NotFound]
     \/ \E q \in DistinctSeqs(Keys) :
          /\ index = Found(q)
          /\ records = [i \in Keys |->
                          IF Includes(q, i)
                          THEN Found(GeneratedRecord(FetchedEnriched(i),
                                                     GeneratedOutreach, Some(Html)))
                          ELSE NotFound]
  /\ limit = 1 /\ quota = 0 /\ lp = IdleLp /\ call = IdleCall

NextDelete ==
  \/ \E d \in Dels, id \in Keys : DeleteGet(d, id)
  \/ \E d \in Dels : DeleteSetIndex(d)
  \/ \E d \in Dels : DeleteRecord(d)
  \/ \E d \in Dels : DeleteFault(d)

(* DELETE /signals/:id with no other request. *)
SpecDelete == InitDelete /\ [][NextDelete]_vars

(* ------------------------- generateLandingPage ------------------------ *)

MAX_WAIT_MS == 180000
POLL_INTERVAL_MS == 3000
MIN_HTML_LENGTH == 100

(* What the code reads of a file's content: its length, whether it       *)
(* includes '<html', the span /<!DOCTYPE html>[\s\S]*<\/html>/i matches  *)
(* and the span /<html[\s\S]*<\/html>/i matches.                         *)
Contents ==
  { [length |-> 0, open |-> FALSE, doc |-> None, html |-> None],
    [length |-> 99, open |-> TRUE, doc |-> Some("<!DOCTYPE html><html></html>"),
     html |-> Some("<html></html>")],
    [length |-> 100, open |-> TRUE, doc |-> Some("<!DOCTYPE html><html>..</html>"),
     html |-> Some("<html>..</html>")],
    [length |-> 5000, open |-> TRUE, doc |-> None, html |-> Some("<html>...</html>")],
    [length |-> 5000, open |-> TRUE, doc |-> None, html |-> None],
    [length |-> 5000, open |-> FALSE, doc |-> Some("<!DOCTYPE html><HTML>.</HTML>"),
     html |-> Some("<HTML>.</HTML>")],
    [length |-> 5000, open |-> FALSE, doc |-> None, html |-> None] }

(* How long a readFile may take, and how late a timer may fire, in ms. *)
ReadDurations == {0, 2000}
SleepJitter == {0, 1000}

ValidContentByLength(content) == content.length >= MIN_HTML_LENGTH

(* pollForOutputFile, line 104 *)
ValidContent(content) == content.length >= MIN_HTML_LENGTH /\ content.open

LoopTestInclusive(elapsed) == elapsed <= MAX_WAIT_MS

(* line 99: while (Date.now() - startTime < CONFIG.MAX_WAIT_MS) *)
LoopTest(elapsed) == elapsed < MAX_WAIT_MS

ExtractOrRaw(output) ==
  IF output.doc # None THEN output.doc
  ELSE IF output.html # None THEN Some("<!DOCTYPE html>\n" \o output.html[1])
  ELSE Some("raw content")

(* extractHtmlFromOutput, lines 256-268 *)
ExtractHtmlFromOutput(output) ==
  IF output.doc # None THEN output.doc
  ELSE IF output.html # None THEN Some("<!DOCTYPE html>\n" \o output.html[1])
  ELSE None

(* lines 58-66: `if (html) return html; ... return null`. *)
ReturnOf(html) == IF html # None /\ html[1] # "" THEN html ELSE Some("null")

(* lines 26-34: the guard on the sandbox service. *)
LpStart(available) ==
  /\ lp.pc = "idle"
  /\ lp' = IF available
           THEN [lp EXCEPT !.pc = "create"]
           ELSE [lp EXCEPT !.pc = "done", !.ret = Some("null"), !.result = Some("null")]
  /\ UNCHANGED <<run, task, records, index, del, faults, limit, quota, call>>

LpCatchAndPoll(l) == [l EXCEPT !.caught = TRUE, !.pc = "poll"]

(* lines 67-72: the catch block. *)
LpCatch(l) == [l EXCEPT !.caught = TRUE, !.ret = Some("null"), !.pc = "finally"]

(* lines 37-44: ctx.sandbox.create returns a handle or throws. *)
LpCreate(ok) ==
  /\ lp.pc = "create"
  /\ lp' = IF ok
           THEN [lp EXCEPT !.creates = @ + 1, !.sandbox = Some("sandbox"),
                           !.pc = "execute"]
           ELSE LpCatch([lp EXCEPT !.creates = @ + 1])
  /\ UNCHANGED <<run, task, records, index, del, faults, limit, quota, call>>

(* lines 46-56: sandbox.execute returns or throws; polling starts. *)
LpExecute(ok) ==
  /\ lp.pc = "execute"
  /\ lp' = IF ok
           THEN [lp EXCEPT !.executes = @ + 1, !.pc = "poll", !.elapsed = 0]
           ELSE LpCatch([lp EXCEPT !.executes = @ + 1])
  /\ UNCHANGED <<run, task, records, index, del, faults, limit, quota, call>>

(* lines 99-114: the loop test passes and the file is read: the read     *)
(* throws (content = None) or yields content.                            *)
LpRead(content, d) ==
  /\ lp.pc = "poll"
  /\ LoopTest(lp.elapsed)
  /\ lp' = IF content # None /\ ValidContent(content[1])
           THEN [lp EXCEPT !.reads = @ + 1, !.elapsed = @ + d,
                           !.last = Some(content),
                           !.ret = ReturnOf(ExtractHtmlFromOutput(content[1])),
                           !.pc = "finally"]
           ELSE [lp EXCEPT !.reads = @ + 1, !.elapsed = @ + d,
                           !.last = Some(content), !.pc = "sleep"]
  /\ UNCHANGED <<run, task, records, index, del, faults, limit, quota, call>>

(* line 116: await sleep(CONFIG.POLL_INTERVAL_MS) *)
LpSleep(late) ==
  /\ lp.pc = "sleep"
  /\ lp' = [lp EXCEPT !.elapsed = @ + POLL_INTERVAL_MS + late, !.last = None,
                      !.pc = "poll"]
  /\ UNCHANGED <<run, task, records, index, del, faults, limit, quota, call>>

(* lines 119-124 and 65-66: the loop test fails. *)
LpTimeout ==
  /\ lp.pc = "poll"
  /\ ~LoopTest(lp.elapsed)
  /\ lp' = [lp EXCEPT !.ret = Some("null"), !.pc = "finally"]
  /\ UNCHANGED <<run, task, records, index, del, faults, limit, quota, call>>

AfterDestroyUncaught(l, ok) ==
  IF ok
  THEN [l EXCEPT !.destroys = @ + 1, !.result = l.ret, !.pc = "done"]
  ELSE [l EXCEPT !.destroys = @ + 1, !.destroyFailed = TRUE, !.threw = TRUE,
                 !.pc = "done"]

(* lines 75-83: sandbox.destroy() returns or throws inside its own try. *)
AfterDestroy(l, ok) ==
  [l EXCEPT !.destroys = @ + 1, !.destroyFailed = ~ok, !.result = l.ret,
            !.pc = "done"]

NeedsDestroyUnlessCaught(l) == l.sandbox # None /\ ~l.caught

(* line 74: if (sandbox) *)
NeedsDestroy(l) == l.sandbox # None

(* lines 73-85: the finally block. *)
LpFinally(ok) ==
  /\ lp.pc = "finally"
  /\ lp' = IF NeedsDestroy(lp)
           THEN AfterDestroy(lp, ok)
           ELSE [lp EXCEPT !.result = lp.ret, !.pc = "done"]
  /\ UNCHANGED <<run, task, records, index, del, faults, limit, quota, call>>

NextLanding ==
  \/ \E available \in BOOLEAN : LpStart(available)
  \/ \E ok \in BOOLEAN : LpCreate(ok)
  \/ \E ok \in BOOLEAN : LpExecute(ok)
  \/ \E content \in {None} \cup {Some(c) : c \in Contents}, d \in ReadDurations :
       LpRead(content, d)
  \/ \E late \in SleepJitter : LpSleep(late)
  \/ LpTimeout
  \/ \E ok \in BOOLEAN : LpFinally(ok)

InitLanding == InitStore /\ limit = 0 /\ quota = 0 /\ lp = IdleLp /\ call = IdleCall

SpecLanding == InitLanding /\ [][NextLanding]_vars

(* ---------------------------- services/linkt -------------------------- *)

MaxEntities == 2      \* longest entity list of a signal

DEFAULT_COMPANY_NAME == "Target Account"

(* A JSON value of an entity's data, as far as the code tells values      *)
(* apart: undefined, a string, or a number (v is then what String gives). *)
Undefined == [type |-> "undefined", v |-> ""]
Str(x) == [type |-> "string", v |-> x]
Num(x) == [type |-> "number", v |-> x]

(* String.prototype.trim on the sample strings. *)
Trim(str) ==
  CASE str = " " -> ""
    [] str = " Acme " -> "Acme"
    [] OTHER -> str

(* toText, lines 408-418 *)
ToText(value) ==
  IF value.type = "string" THEN Some(Trim(value.v))
  ELSE IF value.type = "number" THEN Some(value.v)
  ELSE None

(* JavaScript truthiness of a string | undefined | null. *)
Truthy(text) == text # None /\ text[1] # ""

(* a || b *)
Or(a, b) == IF Truthy(a) THEN a ELSE b

(* Array.prototype.find: the first element among those at the positions  *)
(* that pass the predicate, or undefined.                                 *)
Find(s, hits) ==
  IF hits = {} THEN None
  ELSE Some(s[CHOOSE i \in hits : \A j \in hits : i <= j])

(* entity?.data?.field *)
DataOf(entity, field) == IF entity = None THEN Undefined ELSE entity[1].data[field]

(* lines 380-382: the predicate that picks companyEntity. *)
IsCompanyEntity(entity) ==
  \/ entity.entity_type = "company"
  \/ entity.data.company_name.type = "string" /\ entity.data.company_name.v # ""

(* resolveCompanyName, lines 378-393 *)
ResolveCompanyName(entities) ==
  LET companyEntity ==
        Find(entities, {i \in 1..Len(entities) : IsCompanyEntity(entities[i])})
      personEntity ==
        Find(entities, {i \in 1..Len(entities) : entities[i].entity_type = "person"})
      text == Or(Or(ToText(DataOf(companyEntity, "name")),
                    ToText(DataOf(companyEntity, "company_name"))),
                 ToText(DataOf(personEntity, "company_name")))
  IN IF Truthy(text) THEN text ELSE None

(* mapLinktSignalToSignal, lines 358 and 366: the signal's company. *)
CompanyOf(entities) ==
  LET resolved == ResolveCompanyName(entities)
  IN IF resolved = None THEN DEFAULT_COMPANY_NAME ELSE resolved[1]

NameValues == {Undefined, Str("Jane"), Str(" ")}
CompanyNameValues == {Undefined, Str(""), Str(" "), Str("Acme"), Str(" Acme "), Num("7")}

Entities ==
  [entity_type : {"company", "person", "contact"},
   data : [name : NameValues, company_name : CompanyNameValues]]

EntityLists == SeqsUpTo(Entities, MaxEntities)

InitCompany ==
  /\ InitStore /\ limit = 0 /\ quota = 0 /\ lp = IdleLp
  /\ call \in {[fn |-> "mapLinktSignalToSignal", arg |-> es, out |-> None] :
                 es \in EntityLists}

MapLinktSignalToSignal ==
  /\ call.fn = "mapLinktSignalToSignal" /\ call.out = None
  /\ call' = [call EXCEPT !.out = Some(CompanyOf(call.arg))]
  /\ UNCHANGED <<run, task, records, index, del, faults, limit, quota, lp>>

SpecCompany == InitCompany /\ [][MapLinktSignalToSignal]_vars

(* processSignalWebhook with its fetches settling one by one, in any      *)
(* order. log: the settlements so far, in the order they happened.        *)

MaxFetches == 3       \* longest signals_created list whose fetches are followed

(* How one fetchSignal promise can settle: fulfilled with an              *)
(* EnrichedSignal, fulfilled with null, or rejected.                      *)
Settlements(id) ==
  {[status |-> "fulfilled", value |-> Some(FetchedEnriched(id))],
   [status |-> "fulfilled", value |-> None],
   [status |-> "rejected", value |-> None]}

AllSettledByCompletion(n, log) == [k \in 1..n |-> log[k].result]

(* Promise.allSettled, line 338: the results, one per input position.     *)
AllSettled(n, log) ==
  [i \in 1..n |-> (CHOOSE e \in {log[k] : k \in 1..Len(log)} : e.i = i).result]

(* lines 339-354: the values of the fulfilled, non-null results, pushed   *)
(* in the order of the results array.                                     *)
EnrichedSignalsOf(results) ==
  LET kept == SelectSeq(results, LAMBDA x : x.status = "fulfilled" /\ x.value # None)
  IN [k \in 1..Len(kept) |-> kept[k].value[1]]

InitFetches ==
  /\ InitStore /\ limit = 0 /\ quota = 0 /\ lp = IdleLp
  /\ call \in {[fn |-> "processSignalWebhook", arg |-> ids, out |-> None,
                  log |-> <<>>] : ids \in SeqsUpTo(IDs, MaxFetches)}

(* One of the fetches started at line 338 settles. *)
FetchSettle(i, result) ==
  /\ call.fn = "processSignalWebhook" /\ call.out = None
  /\ i \in 1..Len(call.arg)
  /\ \A k \in 1..Len(call.log) : call.log[k].i # i
  /\ result \in Settlements(call.arg[i])
  /\ call' = [call EXCEPT !.log = Append(@, [i |-> i, result |-> result])]
  /\ UNCHANGED <<run, task, records, index, del, faults, limit, quota, lp>>

(* lines 330-336 (no IDs) or 338-354 (every fetch has settled). *)
ProcessSignalWebhookReturn ==
  /\ call.fn = "processSignalWebhook" /\ call.out = None
  /\ Len(call.log) = Len(call.arg)
  /\ call' = [call EXCEPT !.out =
       Some(IF Len(call.arg) = 0 THEN <<>>
            ELSE EnrichedSignalsOf(AllSettled(Len(call.arg), call.log)))]
  /\ UNCHANGED <<run, task, records, index, del, faults, limit, quota, lp>>

NextFetches ==
  \/ \E i \in 1..MaxFetches, id \in IDs :
       \E result \in Settlements(id) : FetchSettle(i, result)
  \/ ProcessSignalWebhookReturn

SpecFetches == InitFetches /\ [][NextFetches]_vars

(* fetchSignal with the signal retrieval and the entity retrievals as     *)
(* steps. retrieved: "pending", "ok" or "failed"; out: None until the     *)
(* call returns, then Some(None) for null or Some(Some(enrichedSignal)).  *)

EntityIds == {"e1", "e2", "e3"}

(* What linkt.entity.retrieve yields for an entity ID when it succeeds. *)
EntityOf(entityId) ==
  [id |-> entityId,
   entity_type |-> IF entityId = "e1" THEN "company"
                   ELSE IF entityId = "e2" THEN "person" ELSE "contact",
   data |-> [name |-> IF entityId = "e1" THEN Str("Acme") ELSE Undefined,
             company_name |-> IF entityId = "e2" THEN Str("Beta") ELSE Undefined]]

(* How one promise of lines 302-305 can settle. *)
EntitySettlements(entityId) ==
  {[status |-> "fulfilled", value |-> Some(EntityOf(entityId))],
   [status |-> "rejected", value |-> None]}

(* fetchEntities, lines 301-321: the entities of the fulfilled results,   *)
(* pushed in the order of the results array.                              *)
FetchEntities(results) ==
  LET kept == SelectSeq(results, LAMBDA x : x.status = "fulfilled")
  IN [k \in 1..Len(kept) |-> kept[k].value[1]]

FetchSignalAllOrNull(linktSignal, results) ==
  IF \E k \in 1..Len(results) : results[k].status = "rejected" THEN None
  ELSE Some([signal |-> [id |-> linktSignal.id,
                         company |-> CompanyOf(FetchEntities(results)),
                         type |-> linktSignal.signal_type],
             entities |-> FetchEntities(results),
             linktSignal |-> Some(linktSignal)])

(* fetchSignal, lines 276-283: the value returned once the entities are   *)
(* in.                                                                    *)
FetchSignalValue(linktSignal, results) ==
  LET entities == FetchEntities(results)
  IN Some([signal |-> [id |-> linktSignal.id,
                       company |-> CompanyOf(entities),
                       type |-> linktSignal.signal_type],
           entities |-> entities,
           linktSignal |-> Some(linktSignal)])

InitFetchSignal ==
  /\ InitStore /\ limit = 0 /\ quota = 0 /\ lp = IdleLp
  /\ call \in {[fn |-> "fetchSignal", arg |-> id, retrieved |-> "pending",
                  linktSignal |-> None, log |-> <<>>, out |-> None] : id \in IDs}

(* line 275, linkt.signal.retrieve resolves. *)
SignalRetrieve(entity_ids) ==
  /\ call.fn = "fetchSignal" /\ call.retrieved = "pending"
  /\ call' = [call EXCEPT !.retrieved = "ok",
                           !.linktSignal = Some([id |-> call.arg,
                                                 signal_type |-> "funding",
                                                 entity_ids |-> entity_ids])]
  /\ UNCHANGED <<run, task, records, index, del, faults, limit, quota, lp>>

(* line 275 rejects: catch, lines 284-290, returns null. *)
SignalRetrieveFails ==
  /\ call.fn = "fetchSignal" /\ call.retrieved = "pending"
  /\ call' = [call EXCEPT !.retrieved = "failed", !.out = Some(None)]
  /\ UNCHANGED <<run, task, records, index, del, faults, limit, quota, lp>>

(* One of the entity retrievals started at lines 301-306 settles. *)
EntitySettle(i, result) ==
  /\ call.fn = "fetchSignal" /\ call.retrieved = "ok" /\ call.out = None
  /\ i \in 1..Len(call.linktSignal[1].entity_ids)
  /\ \A k \in 1..Len(call.log) : call.log[k].i # i
  /\ result \in EntitySettlements(call.linktSignal[1].entity_ids[i])
  /\ call' = [call EXCEPT !.log = Append(@, [i |-> i, result |-> result])]
  /\ UNCHANGED <<run, task, records, index, del, faults, limit, quota, lp>>

(* lines 297-299 (no entity IDs) or 301-321 (all settled), then lines     *)
(* 277-283.                                                               *)
FetchSignalReturn ==
  /\ call.fn = "fetchSignal" /\ call.retrieved = "ok" /\ call.out = None
  /\ Len(call.log) = Len(call.linktSignal[1].entity_ids)
  /\ call' = [call EXCEPT !.out =
       Some(FetchSignalValue(call.linktSignal[1],
              IF Len(call.log) = 0 THEN <<>>
              ELSE AllSettled(Len(call.log), call.log)))]
  /\ UNCHANGED <<run, task, records, index, del, faults, limit, quota, lp>>

NextFetchSignal ==
  \/ \E entity_ids \in SeqsUpTo(EntityIds, MaxEntities) : SignalRetrieve(entity_ids)
  \/ SignalRetrieveFails
  \/ \E i \in 1..MaxEntities, e \in EntityIds :
       \E result \in EntitySettlements(e) : EntitySettle(i, result)
  \/ FetchSignalReturn

SpecFetchSignal == InitFetchSignal /\ [][NextFetchSignal]_vars

(* -------------------------- generators/outreach ----------------------- *)

(* More JSON values: null, an array (v names its elements) and an object  *)
(* with the two properties of Outreach.email.                             *)
Null == [type |-> "null", v |-> ""]
Arr(x) == [type |-> "array", v |-> x]
Obj(subject, body) == [type |-> "object", v |-> "", subject |-> subject, body |-> body]

(* value.field: undefined when the value has no such property. *)
Prop(value, field) ==
  IF value.type = "object" /\ field \in DOMAIN value THEN value[field] ELSE Undefined

(* a ?? d *)
Coalesce(a, d) == IF a.type \in {"undefined", "null"} THEN d ELSE a

TextValues == {Undefined, Null, Str("x")}
ListValues == {Undefined, Null, Arr("p")}
EmailValues == {Undefined, Null} \cup {Obj(a, b) : a, b \in TextValues}

(* What JSON.parse(content) can give: null, a number, or an object with   *)
(* any of the five properties of Outreach present, null or omitted.       *)
ParsedContents ==
  {Null, Num("7")} \cup
  [type : {"object"}, v : {""}, email : EmailValues, linkedin : TextValues,
   twitter : TextValues, callPoints : ListValues, summary : TextValues]

(* generateOutreach, lines 67-73: the returned Outreach. *)
OutreachOf(outreach) ==
  [email |-> Coalesce(Prop(outreach, "email"), Obj(Str(""), Str(""))),
   linkedin |-> Coalesce(Prop(outreach, "linkedin"), Str("")),
   twitter |-> Coalesce(Prop(outreach, "twitter"), Str("")),
   callPoints |-> Coalesce(Prop(outreach, "callPoints"), Arr("")),
   summary |-> Coalesce(Prop(outreach, "summary"), Str(""))]

InitOutreach ==
  /\ InitStore /\ limit = 0 /\ quota = 0 /\ lp = IdleLp
  /\ call \in {[fn |-> "generateOutreach", arg |-> c, out |-> None] :
                 c \in ParsedContents}

(* generateOutreach, lines 65-73, from the parsed content on: reading a   *)
(* property of null throws a TypeError.                                   *)
GenerateOutreach ==
  /\ call.fn = "generateOutreach" /\ call.out = None
  /\ call' = [call EXCEPT !.out =
       Some(IF call.arg.type = "null"
            THEN [threw |-> TRUE]
            ELSE [threw |-> FALSE, value |-> OutreachOf(call.arg)])]
  /\ UNCHANGED <<run, task, records, index, del, faults, limit, quota, lp>>

SpecOutreach == InitOutreach /\ [][GenerateOutreach]_vars

(* ---------------------------- specification --------------------------- *)

Next ==
  \/ \E r \in Runs, inp \in Inputs : StartRun(r, inp)
  \/ \E r \in Runs, data \in Payloads : WebhookLinkt(r, data)
  \/ \E r \in Runs : ProcessSignalWebhook(r)
  \/ \E r \in Runs : Finish(r)
  \/ \E r \in Runs : Raise(r)
  \/ \E t \in TaskIds, o \in {"ok"} \cup OutreachErrors,
          l \in LandingOutcomes \cup {"pending"} : PromiseAllSettle(t, o, l)
  \/ \E t \in TaskIds : LandingSettle(t)
  \/ \E t \in TaskIds : KvSetRecord(t)
  \/ \E t \in TaskIds : IndexGet(t)
  \/ \E t \in TaskIds : IndexSet(t)
  \/ \E t \in TaskIds : KvFault(t)
  \/ \E r \in Runs, id \in IDs : RegenerateGet(r, id)
  \/ \E r \in Runs : RegenerateRun(r)
  \/ \E d \in Dels, id \in IDs : DeleteGet(d, id)
  \/ \E d \in Dels : DeleteSetIndex(d)
  \/ \E d \in Dels : DeleteRecord(d)
  \/ \E d \in Dels : DeleteFault(d)

Spec == Init /\ [][Next]_vars

SpecSeq == InitSeq /\ [][Next]_vars

(* ----------------- one run with its landing-page step ---------------- *)
(* The pipeline and generateLandingPage together: one run of one signal,  *)
(* whose landing-page step is the process lp. Every awaited call returns  *)
(* or throws: each continuation is weakly fair.                           *)

T1 == <<1, 1>>

LiveInputs ==
  {[signal |-> None, webhook |-> None],
   [signal |-> Some("a"), webhook |-> None],
   [signal |-> None, webhook |-> Some(SamplePayload)]}

LiveContents ==
  {c \in Contents : c.length = 0 \/ (c.length = 5000 /\ c.open /\ c.html # None)}

StepGoesOnWhileAwaited(tk) == tk.pc = "gen"

(* agent.ts lines 103-111: a rejected Promise.all does not cancel the     *)
(* promise of generateLandingPage; its steps go on whatever the task does.*)
StepGoesOn(tk) == TRUE

(* What the promise of line 105 has done so far. *)
LpSettlement(l) ==
  IF l.pc # "done" THEN "pending"
  ELSE IF l.threw THEN "throw"
  ELSE IF l.result = Some("null") THEN "null" ELSE "html"

InitLive == InitStore /\ limit = 1 /\ quota = 1 /\ lp = IdleLp /\ call = IdleCall

LiveStart(inp) == StartRun(1, inp)

(* line 105: generateLandingPage is called when the task starts. *)
LiveLpStart(available) == task[T1].pc = "gen" /\ LpStart(available)

LiveLpStep ==
  /\ StepGoesOn(task[T1])
  /\ \/ \E ok \in BOOLEAN : LpCreate(ok)
     \/ \E ok \in BOOLEAN : LpExecute(ok)
     \/ \E content \in {None} \cup {Some(c) : c \in LiveContents} : LpRead(content, 0)
     \/ LpSleep(0)
     \/ LpTimeout
     \/ \E ok \in BOOLEAN : LpFinally(ok)

(* line 103: Promise.all settles with what the two steps have done. *)
LiveSettle(o) ==
  /\ lp.pc # "idle"
  /\ PromiseAllSettle(T1, o, LpSettlement(lp))

LiveLandingSettle == lp.pc = "done" /\ LandingSettle(T1)

NextLive ==
  \/ \E inp \in LiveInputs : LiveStart(inp)
  \/ ProcessSignalWebhook(1)
  \/ \E available \in BOOLEAN : LiveLpStart(available)
  \/ LiveLpStep
  \/ \E o \in {"ok"} \cup OutreachErrors : LiveSettle(o)
  \/ LiveLandingSettle
  \/ KvSetRecord(T1)
  \/ IndexGet(T1)
  \/ IndexSet(T1)
  \/ KvFault(T1)
  \/ Finish(1)
  \/ Raise(1)

FairLive ==
  /\ WF_vars(ProcessSignalWebhook(1))
  /\ WF_vars(\E available \in BOOLEAN : LiveLpStart(available))
  /\ WF_vars(LiveLpStep)
  /\ WF_vars(\E o \in {"ok"} \cup OutreachErrors : LiveSettle(o))
  /\ WF_vars(LiveLandingSettle)
  /\ WF_vars(KvSetRecord(T1))
  /\ WF_vars(IndexGet(T1))
  /\ WF_vars(IndexSet(T1))
  /\ WF_vars(Finish(1))
  /\ WF_vars(Raise(1))

SpecLive == InitLive /\ [][NextLive]_vars /\ FairLive

(* ------------------------------- claims ------------------------------- *)

Ids == IndexIds(index)
Stored(id) == records[id].exists

(* C1: in every reachable state of any interleaving of pipeline runs and  *)
(* deletes, an ID is in the list under 'signal:index' if and only if a    *)
(* StoredSignal exists under 'signal:<id>'. Stated where it is weakest:   *)
(* for the states in which no run and no delete is in flight and no store *)
(* call has thrown, so that no half-done update is held against it.       *)
C1_IndexIffStored ==
  Quiescent /\ faults = 0 => \A id \in IDs : Includes(Ids, id) <=> Stored(id)

(* C2: the list under 'signal:index' never holds the same ID twice,       *)
(* whatever the interleaving of per-signal tasks and deletes.             *)
C2_NoDuplicateIds == \A id \in IDs : Count(Ids, id) <= 1

(* Two tasks of one run for the same ID (a webhook naming it twice) have  *)
(* both finished their index update, and the ID is listed.                *)
C2_Witness ==
  \E r \in Runs :
    /\ Len(run[r].sigs) = 2
    /\ run[r].sigs[1].signal.id = run[r].sigs[2].signal.id
    /\ task[<<r, 1>>].pc = "ret" /\ task[<<r, 2>>].pc = "ret"
    /\ run[r].isets >= 1
    /\ Count(Ids, run[r].sigs[1].signal.id) = 1

InlineRunsOf(id) ==
  {r \in Runs : /\ run[r].pc = "returned"
                /\ run[r].kind.signal
                /\ run[r].sigs = <<InlineEnriched(id)>>}

NoDeleteOf(id) == \A d \in Dels : del[d].pc = "idle" \/ del[d].id # id

OnlyInlineRunsOf(id) == \A r \in Runs : run[r].pc = "idle" \/ r \in InlineRunsOf(id)

LastRun == CHOOSE r \in Runs : run[r].pc # "idle" /\ \A q \in Runs : q > r => run[q].pc = "idle"

(* The records one inline invocation for id can leave, each with every    *)
(* field from that invocation alone.                                      *)
InlineRecords(id, success) ==
  IF success
  THEN {[signal |-> [id |-> id, company |-> "Acme", type |-> "funding"],
         entities |-> <<>>, linktSignal |-> None,
         outreach |-> GeneratedOutreach, landingPageHtml |-> l,
         status |-> "generated"] : l \in {None, Some(Html)}}
  ELSE {[signal |-> [id |-> id, company |-> "Acme", type |-> "funding"],
         entities |-> <<>>, linktSignal |-> None,
         outreach |-> EmptyOutreach, status |-> "error", error |-> m] :
          m \in OutreachErrors}

(* C3: with requests served one at a time, no store call throwing and no  *)
(* delete of the ID, N >= 1 invocations with the same inline signal each  *)
(* set 'signal:<id>' once (N writes), the record left is the last         *)
(* invocation's alone (an overwrite, not a merge), the index lists the ID *)
(* exactly once, and no invocation after the first writes the index.      *)
C3_InlineIdempotent ==
  faults = 0 =>
    \A id \in IDs :
      NoDeleteOf(id) =>
        LET R == InlineRunsOf(id)
        IN /\ \A r \in R : run[r].sets = 1
           /\ \A r \in R : (\E q \in R : q < r) => run[r].isets = 0
           /\ R # {} => Count(Ids, id) = 1
           /\ R # {} /\ Quiescent /\ OnlyInlineRunsOf(id) =>
                /\ Stored(id)
                /\ records[id].data \in InlineRecords(id, run[LastRun].result[1].success)

(* Two invocations in sequence: the first failed, the second succeeded.   *)
C3_Witness ==
  /\ faults = 0 /\ Quiescent /\ NoDeleteOf("a")
  /\ Cardinality(InlineRunsOf("a")) = 2
  /\ ~run[1].result[1].success /\ run[2].result[1].success
  /\ run[1].sets = 1 /\ run[2].sets = 1 /\ run[1].isets = 1 /\ run[2].isets = 0
  /\ records["a"].data.status = "generated"
  /\ Ids = <<"a">>

(* C4: a task whose outreach step threw has, when it returns, left under  *)
(* 'signal:<id>' a record with status 'error', the all-empty outreach and *)
(* the thrown message, and the ID is in the index (requests served one at *)
(* a time, so the store is as the task left it).                          *)
C4_OutreachErrorStored ==
  \A t \in TaskIds :
    task[t].pc = "ret" /\ task[t].outreach = "threw" =>
      LET id == task[t].es.signal.id
      IN /\ Stored(id)
         /\ records[id].data.status = "error"
         /\ records[id].data.outreach =
              [email |-> [subject |-> "", body |-> ""], linkedin |-> "",
               twitter |-> "", callPoints |-> <<>>, summary |-> ""]
         /\ task[t].err[1] \in OutreachErrors
         /\ records[id].data.error = task[t].err[1]
         /\ records[id].data.signal = task[t].es.signal
         /\ Includes(Ids, id)

(* The failed signal is new: its task inserted it into the index. *)
C4_Witness ==
  \E t \in TaskIds :
    /\ task[t].pc = "ret" /\ task[t].outreach = "threw"
    /\ run[t[1]].isets = 1
    /\ records[task[t].es.signal.id].data.error = "No response from LLM"
    /\ Ids = <<task[t].es.signal.id>>

(* C5: a task whose outreach step succeeded and whose landing-page step   *)
(* failed (returned null or threw) leaves a record with status            *)
(* 'generated', no error field and no landingPageHtml; and a task whose   *)
(* outreach step succeeded reaches the catch block only through a store   *)
(* call that threw, never through the landing-page step.                  *)
C5_LandingFailureIsSoft ==
  \A t \in TaskIds :
    /\ task[t].pc = "ret" /\ task[t].outreach = "ok" /\ task[t].landing = "null"
         /\ task[t].path = "try" =>
         LET id == task[t].es.signal.id
         IN /\ Stored(id)
            /\ records[id].data.status = "generated"
            /\ "error" \notin DOMAIN records[id].data
            /\ records[id].data.landingPageHtml = None
    /\ task[t].outreach = "ok" /\ task[t].path = "catch" => task[t].err = Some(KvError)
    /\ task[t].outreach = "ok" /\ task[t].landing = "null" /\ faults = 0 =>
         task[t].path = "try"

C5_Witness ==
  \E t \in TaskIds :
    /\ task[t].pc = "ret" /\ task[t].outreach = "ok" /\ task[t].landing = "null"
    /\ faults = 0
    /\ records[task[t].es.signal.id].data.status = "generated"
    /\ records[task[t].es.signal.id].data.landingPageHtml = None

(* C6: an execution of generateLandingPage calls sandbox.destroy() at     *)
(* most once, never without a sandbox that create returned, and exactly   *)
(* once before it returns when create returned one.                       *)
C6_DestroyExactlyOnce ==
  /\ lp.destroys <= 1
  /\ lp.sandbox = None => lp.destroys = 0
  /\ lp.pc = "done" /\ lp.sandbox # None => lp.destroys = 1

(* The poll timed out, and the sandbox was destroyed. *)
C6_Witness ==
  /\ lp.pc = "done" /\ lp.destroys = 1 /\ ~lp.caught
  /\ lp.elapsed >= MAX_WAIT_MS /\ lp.result = Some("null")

(* C7: generateLandingPage never throws: it ends with a returned value,   *)
(* which is the value of the return statement it reached (null after an   *)
(* exception), whether or not sandbox.destroy() threw.                    *)
C7_NeverThrows ==
  /\ ~lp.threw
  /\ lp.pc = "done" => lp.result # None /\ lp.result = lp.ret
  /\ lp.pc = "done" /\ lp.caught => lp.result = Some("null")

(* destroy threw after HTML had been obtained, and the HTML is returned.  *)
C7_Witness ==
  /\ lp.pc = "done" /\ lp.destroyFailed
  /\ lp.result # None /\ lp.result # Some("null")

(* C8: a run that resolved zero signals has returned                      *)
(* {success:false, message:'No signal data provided or retrieved'}, has   *)
(* started no per-signal task and has written neither a 'signal:<id>' key *)
(* nor 'signal:index'; a run past resolution that has not returned this   *)
(* way holds at least one signal.                                         *)
C8_NoSignalsNoWrites ==
  \A r \in Runs :
    /\ run[r].pc \in {"running", "raised"} => Len(run[r].sigs) >= 1
    /\ run[r].pc = "returned" /\ Len(run[r].sigs) = 0 =>
         /\ run[r].result =
              Some([success |-> FALSE, signalId |-> None,
                    message |-> <<"No signal data provided or retrieved">>])
         /\ run[r].sets = 0 /\ run[r].isets = 0
         /\ \A s \in Slots : task[<<r, s>>].pc = "idle"

(* Every signal the webhook named failed enrichment. *)
C8_Witness ==
  \E r \in Runs :
    /\ run[r].pc = "returned" /\ run[r].kind.webhook /\ run[r].enriched
    /\ Len(run[r].sigs) = 0
    /\ run[r].result = Some(NoSignalResult)

Succeeded(r) == {i \in 1..Len(run[r].sigs) : run[r].outcomes[i]}
FirstSucceeded(r) == CHOOSE i \in Succeeded(r) : \A j \in Succeeded(r) : i <= j

(* C9, as claimed: for N >= 1 resolved signals, success is true exactly   *)
(* when a signal succeeded; then the message reports the number of        *)
(* successes and names the first succeeded signal's ID; otherwise the     *)
(* message reports the failure count N.                                   *)
C9_MessageNamesFirstId ==
  \A r \in Runs :
    run[r].pc = "returned" /\ Len(run[r].sigs) >= 1 =>
      LET res == run[r].result[1]
          k == Cardinality(Succeeded(r))
      IN /\ res.success = (k > 0)
         /\ k > 0 => /\ Includes(res.message, ToString(k))
                     /\ Includes(res.message, run[r].sigs[FirstSucceeded(r)].signal.id)
         /\ k = 0 => Includes(res.message, ToString(Len(run[r].sigs)))

(* C9, amended: the ID of the first succeeded signal is in the result's   *)
(* signalId field, not in the message; the message holds only the count.  *)
(* When no signal succeeded, signalId is the first signal's ID.           *)
C9_AggregateResult ==
  \A r \in Runs :
    run[r].pc = "returned" /\ Len(run[r].sigs) >= 1 =>
      LET res == run[r].result[1]
          k == Cardinality(Succeeded(r))
      IN /\ res.success = (k > 0)
         /\ k > 0 =>
              /\ res.message = <<"Generated outreach for ", ToString(k), " signal(s)">>
              /\ res.signalId = Some(run[r].sigs[FirstSucceeded(r)].signal.id)
         /\ k = 0 =>
              /\ res.message = <<"Failed to generate outreach for ",
                                 ToString(Len(run[r].sigs)), " signal(s)">>
              /\ res.signalId = Some(run[r].sigs[1].signal.id)

(* Two signals with different IDs: the first failed, the second succeeded. *)
C9_Witness ==
  \E r \in Runs :
    /\ run[r].pc = "returned" /\ Len(run[r].sigs) = 2
    /\ run[r].outcomes = <<FALSE, TRUE>>
    /\ run[r].sigs[1].signal.id # run[r].sigs[2].signal.id
    /\ run[r].result[1].signalId = Some(run[r].sigs[2].signal.id)

(* C10: every StoredSignal in the store (each was put there by a write of *)
(* the orchestrator) has status 'generated' or 'error', and has an error  *)
(* field if and only if its status is 'error'.                            *)
C10_StatusAndError ==
  \A id \in IDs :
    Stored(id) =>
      /\ records[id].data.status \in {"generated", "error"}
      /\ ("error" \in DOMAIN records[id].data) <=> (records[id].data.status = "error")

(* One record of each status is in the store. *)
C10_Witness ==
  \E i, j \in IDs :
    /\ Stored(i) /\ records[i].data.status = "error" /\ "error" \in DOMAIN records[i].data
    /\ Stored(j) /\ records[j].data.status = "generated"
    /\ \E r \in Runs : run[r].sets >= 2

(* C11: a run that POST /webhook/linkt started with the README's test     *)
(* body (a top-level 'signal' for some id, no signals_created) has, once  *)
(* it has returned, left a StoredSignal under 'signal:<id>' that is       *)
(* listed in the index, so that GET /signals returns it. No delete has    *)
(* been requested.                                                        *)
C11_ReadmePayloadStored ==
  \A r \in Runs :
    /\ run[r].pc = "returned"
    /\ run[r].kind.webhook /\ ~run[r].kind.signal
    /\ run[r].kind.bodySignal # None
    /\ \A d \in Dels : del[d].pc = "idle"
    => LET id == run[r].kind.bodySignal[1]
       IN Stored(id) /\ Includes(Ids, id)

(* No invocation other than r has been started, and no delete requested.  *)
Alone(r) ==
  /\ \A q \in Runs \ {r} : run[q].pc = "idle"
  /\ \A d \in Dels : del[d].pc = "idle"

(* Both tasks of run r, for two distinct IDs, have written their records  *)
(* and have read the index, and neither has written it: neither list read *)
(* holds either ID.                                                       *)
BothReadBeforeWrite(r) ==
  /\ Len(run[r].sigs) = 2
  /\ task[<<r, 1>>].pc = "iset" /\ task[<<r, 2>>].pc = "iset"
  /\ task[<<r, 1>>].es.signal.id # task[<<r, 2>>].es.signal.id
  /\ \A s, u \in 1..2 : ~Includes(task[<<r, s>>].ids, task[<<r, u>>].es.signal.id)

(* Run r has returned, both records exist and the index holds exactly one *)
(* of its two IDs.                                                        *)
OneInsertionLost(r) ==
  /\ run[r].pc = "returned"
  /\ Len(run[r].sigs) = 2
  /\ \A i \in 1..2 : Stored(run[r].sigs[i].signal.id)
  /\ Includes(Ids, run[r].sigs[1].signal.id) # Includes(Ids, run[r].sigs[2].signal.id)

(* C12: once the two concurrent tasks of a run, for two distinct IDs not  *)
(* yet indexed, have both read the index before either wrote it, the run  *)
(* cannot repair the loss: from then on, whenever the run has returned    *)
(* (no store call having thrown, no other request made), both records     *)
(* exist and the index holds only one of the two IDs. The witness is such *)
(* a state, so the interleaving exists.                                   *)
C12_LostInsertion ==
  \A r \in Runs :
    [](BothReadBeforeWrite(r) =>
         [](run[r].pc = "returned" /\ faults = 0 /\ Alone(r) => OneInsertionLost(r)))

C12_Witness ==
  \E r \in Runs :
    /\ OneInsertionLost(r) /\ run[r].isets = 2 /\ run[r].sets = 2
    /\ faults = 0 /\ \A d \in Dels : del[d].pc = "idle"
    /\ Len(Ids) = 1

(* The task has made a store write: it is past its first kv.set.          *)
HasWritten(t) == task[t].pc \in {"iget", "iset", "ret"}

(* C13, as claimed: no store write of a task occurs while either of its   *)
(* two generation steps is still in flight.                               *)
C13_NoWriteWhileInFlight ==
  \A t \in TaskIds :
    HasWritten(t) => task[t].outreach # "pending" /\ task[t].landing # "pending"

(* C13, amended: the two steps start together; a record is written only   *)
(* after the outreach step has settled; the record of the success path is *)
(* written only after both steps have settled; a write made while the     *)
(* landing-page step is still in flight is the catch block's, after the   *)
(* outreach step threw, and the record it wrote has status 'error'.       *)
C13_WriteAfterSettle ==
  \A t \in TaskIds :
    /\ task[t].pc = "gen" => task[t].outreach = "pending" /\ task[t].landing = "pending"
    /\ task[t].pc \in {"set", "iget", "iset", "ret"} =>
         /\ task[t].outreach \in {"ok", "threw"}
         /\ task[t].outreach = "ok" => task[t].landing \in {"html", "null"}
         /\ task[t].landing = "pending" =>
              task[t].outreach = "threw" /\ task[t].path = "catch"

(* The error record is in the store and the index has been read while    *)
(* the landing-page step is still running.                                *)
C13_Witness ==
  \E t \in TaskIds :
    /\ task[t].pc = "iget" /\ task[t].landing = "pending"
    /\ task[t].outreach = "threw"
    /\ Stored(task[t].es.signal.id)
    /\ records[task[t].es.signal.id].data.status = "error"

(* A store call of the task threw after its generation had succeeded.     *)
StoreFailedAfterGeneration(t) ==
  task[t].outreach = "ok" /\ task[t].err = Some(KvError)

(* C14, as claimed: an exception of the store write or the index update   *)
(* that follows successful generation propagates out of the per-signal    *)
(* handler, and no error-status record is written in response.            *)
C14_StoreFailurePropagates ==
  \A t \in TaskIds :
    StoreFailedAfterGeneration(t) =>
      /\ task[t].pc # "ret"
      /\ task[t].pc = "thrown" =>
           ~(/\ Stored(task[t].es.signal.id)
             /\ records[task[t].es.signal.id].data.status = "error")

(* C14, amended: such an exception is caught by the per-signal try/catch: *)
(* the task goes on in the catch block and, when it returns, has written  *)
(* an error-status record carrying the store's message and has the ID in  *)
(* the index; a task throws only from inside its catch block, that is     *)
(* after a second store exception (requests served one at a time, so the  *)
(* store is as the task left it).                                         *)
C14_StoreFailureCaught ==
  \A t \in TaskIds :
    /\ task[t].pc = "thrown" => task[t].path = "catch"
    /\ StoreFailedAfterGeneration(t) => task[t].path = "catch"
    /\ StoreFailedAfterGeneration(t) /\ task[t].pc = "thrown" => faults >= 2
    /\ StoreFailedAfterGeneration(t) /\ task[t].pc = "ret" =>
         LET id == task[t].es.signal.id
         IN /\ Stored(id)
            /\ records[id].data.status = "error"
            /\ records[id].data.error = KvError
            /\ Includes(Ids, id)

(* The index update threw after the generated record had been written:    *)
(* the catch block has written the error record over it.                  *)
C14_Witness ==
  \E t \in TaskIds :
    /\ StoreFailedAfterGeneration(t) /\ task[t].pc = "ret"
    /\ run[t[1]].sets = 2
    /\ records[task[t].es.signal.id].data.status = "error"

(* C15: in a batch of two resolved signals in which no store call throws, *)
(* a generation failure aborts nothing: no task throws and the run does   *)
(* not throw; when the run has returned, it has an aggregate result, each *)
(* signal's record has been written (one write per signal), and, the two  *)
(* IDs being distinct and no other request made, each signal is stored    *)
(* with the status of its own outcome.                                    *)
C15_FailureContained ==
  \A r \in Runs :
    Len(run[r].sigs) = 2 /\ faults = 0 =>
      /\ run[r].pc # "raised"
      /\ \A s \in 1..2 : task[<<r, s>>].pc # "thrown"
      /\ run[r].pc = "returned" =>
           /\ run[r].result # None
           /\ Len(run[r].outcomes) = 2
           /\ run[r].sets = 2
           /\ (run[r].sigs[1].signal.id # run[r].sigs[2].signal.id /\ Alone(r))
              => \A i \in 1..2 :
                   LET id == run[r].sigs[i].signal.id
                   IN /\ Stored(id)
                      /\ records[id].data.status =
                           (IF run[r].outcomes[i] THEN "generated" ELSE "error")

(* The first signal's generation failed; the second is stored as          *)
(* generated and the run returned success.                                *)
C15_Witness ==
  \E r \in Runs :
    /\ run[r].pc = "returned" /\ Len(run[r].sigs) = 2 /\ faults = 0
    /\ run[r].outcomes = <<FALSE, TRUE>>
    /\ records[run[r].sigs[1].signal.id].exists
    /\ records[run[r].sigs[1].signal.id].data.status = "error"
    /\ records[run[r].sigs[2].signal.id].exists
    /\ records[run[r].sigs[2].signal.id].data.status = "generated"
    /\ run[r].result[1].success

(* C16: with no concurrent operation, the steps of DELETE /signals/:id    *)
(* compose to this: the read changes nothing; the index write leaves the  *)
(* records alone and writes the list without the ID, every other entry in *)
(* its place relative to the others; the delete of the key leaves the     *)
(* index alone, which does not hold the ID, removes the record of the ID  *)
(* (a no-op when it was not stored) and leaves every other record as it   *)
(* was. So when the request completes, no record exists under             *)
(* 'signal:<id>' and the index does not contain the ID.                   *)
C16_DeleteFrame ==
  [][\A d \in Dels :
       LET id == del'[d].id
       IN /\ del[d].pc = "idle" /\ del'[d].pc # "idle" =>
               index' = index /\ records' = records
          /\ del[d].pc = "set" /\ del'[d].pc = "del" =>
               /\ records' = records
               /\ index'.exists
               /\ index'.data = SelectSeq(IndexIds(index), LAMBDA y : y # id)
          /\ del[d].pc = "del" /\ del'[d].pc = "done" =>
               /\ index' = index
               /\ ~Includes(IndexIds(index'), id)
               /\ ~records'[id].exists
               /\ \A j \in Keys \ {id} : records'[j] = records[j]]_vars

(* The ID deleted was the middle one of three. *)
C16_Witness ==
  \E d \in Dels :
    /\ del[d].pc = "done" /\ del[d].id = "a" /\ del[d].ids = <<"c", "a", "b">>
    /\ IndexIds(index) = <<"c", "b">>
    /\ records["b"].exists /\ records["c"].exists /\ ~records["a"].exists

(* The company_name texts of the person entities that have one. *)
PersonCompanyNames(entities) ==
  {ToText(entities[i].data.company_name)[1] :
     i \in {k \in 1..Len(entities) :
              /\ entities[k].entity_type = "person"
              /\ Truthy(ToText(entities[k].data.company_name))}}

(* C17: for every entity list with no entity of type 'company', the       *)
(* company of the normalized signal is the company_name of a person       *)
(* entity when one has it, and otherwise 'Target Account'; it is always   *)
(* defined.                                                               *)
C17_CompanyFallback ==
  /\ call.fn = "mapLinktSignalToSignal" /\ call.out # None
  /\ \A i \in 1..Len(call.arg) : call.arg[i].entity_type # "company"
  => call.out[1] \in (IF PersonCompanyNames(call.arg) # {}
                      THEN PersonCompanyNames(call.arg)
                      ELSE {"Target Account"})

Defined(value) == value.type \notin {"undefined", "null"}

(* C18: for every parseable completion response for which generateOutreach *)
(* returns, each field of the returned Outreach (email.subject,            *)
(* email.body, linkedin, twitter, callPoints, summary) is a defined value. *)
C18_OutreachFieldsDefined ==
  call.fn = "generateOutreach" /\ call.out # None /\ ~call.out[1].threw =>
    LET o == call.out[1].value
    IN /\ Defined(Prop(o.email, "subject"))
       /\ Defined(Prop(o.email, "body"))
       /\ Defined(o.linkedin) /\ Defined(o.twitter)
       /\ Defined(o.callPoints) /\ Defined(o.summary)

(* C19: a read of the poll loop is followed by a return exactly when it   *)
(* yielded content of at least 100 characters that contains '<html'; a    *)
(* read that threw, or whose content fails either condition, leaves       *)
(* nothing returned and nothing raised, and the loop goes to its sleep.   *)
C19_AcceptOnlyValid ==
  /\ lp.pc = "sleep" =>
       /\ lp.last # None
       /\ lp.last[1] = None \/ lp.last[1][1].length < 100 \/ ~lp.last[1][1].open
       /\ lp.ret = None /\ ~lp.caught /\ ~lp.threw
  /\ lp.pc \in {"finally", "done"} /\ lp.last # None =>
       /\ lp.last[1] # None
       /\ lp.last[1][1].length >= 100 /\ lp.last[1][1].open
       /\ ~lp.caught
  /\ lp.pc = "poll" => lp.last = None

(* Content one character short was read and polling went on; a later      *)
(* read yielded content of exactly 100 characters, which was accepted.    *)
C19_Witness ==
  /\ lp.pc = "finally" /\ lp.reads >= 2
  /\ lp.last # None /\ lp.last[1] # None /\ lp.last[1][1].length = 100
  /\ lp.ret # None /\ lp.ret # Some("null")

(* C20: the poll loop makes at most 60 read attempts, starts no read once *)
(* 180 s have elapsed since polling began, and when the loop test fails   *)
(* it returns absent (null).                                              *)
C20_PollBounded ==
  [][/\ lp'.reads <= 60
     /\ lp'.reads > lp.reads => lp.elapsed < 180000
     /\ lp.pc = "poll" /\ lp.elapsed >= 180000 =>
          lp'.pc = "finally" /\ lp'.ret = Some("null") /\ lp'.reads = lp.reads
     /\ lp'.pc = "done" /\ lp'.last = None /\ lp'.reads > 0 /\ ~lp'.caught =>
          lp'.result = Some("null")]_vars

(* Sixty reads, none accepted, and null returned. *)
C20_Witness ==
  /\ lp.pc = "done" /\ lp.reads = 60 /\ lp.last = None
  /\ lp.elapsed >= 180000 /\ lp.result = Some("null")

(* The read just made yielded content that passes the validity check.     *)
Accepted(l) ==
  /\ l.last # None /\ l.last[1] # None
  /\ l.last[1][1].length >= 100 /\ l.last[1][1].open

(* C21: once a read has passed the validity check, polling is over: no    *)
(* further sandbox read (nor create, nor execute) is made; and if the     *)
(* content holds no '<html ... </html>' span, the value returned is null, *)
(* whatever time is left before the ceiling.                              *)
C21_StopsAfterAccept ==
  [][/\ Accepted(lp') => lp'.pc \in {"finally", "done"}
     /\ Accepted(lp') /\ lp'.last[1][1].doc = None /\ lp'.last[1][1].html = None =>
          /\ lp'.ret = Some("null")
          /\ lp'.pc = "done" => lp'.result = Some("null")
     /\ Accepted(lp) =>
          /\ lp'.reads = lp.reads /\ lp'.creates = lp.creates
          /\ lp'.executes = lp.executes /\ lp'.last = lp.last]_vars

(* Accepted content without a span, on the first read: null is returned   *)
(* long before the ceiling.                                               *)
C21_Witness ==
  /\ lp.pc = "done" /\ Accepted(lp)
  /\ lp.last[1][1].doc = None /\ lp.last[1][1].html = None
  /\ lp.reads = 1 /\ lp.elapsed < MAX_WAIT_MS
  /\ lp.result = Some("null")

(* C22: the sandbox calls of one execution are made in the order create,  *)
(* execute, zero or more readFile, destroy: create is called once, before *)
(* anything else; execute once, on the sandbox create returned; readFile  *)
(* only after execute has returned; destroy on a sandbox create returned; *)
(* and once destroy has been called no create, execute or readFile is.    *)
C22_SandboxCallOrder ==
  [][/\ lp'.creates > lp.creates =>
          lp.creates = 0 /\ lp.executes = 0 /\ lp.reads = 0 /\ lp.destroys = 0
     /\ lp'.executes > lp.executes =>
          /\ lp.creates = 1 /\ lp.sandbox # None
          /\ lp.executes = 0 /\ lp.reads = 0 /\ lp.destroys = 0
     /\ lp'.reads > lp.reads =>
          /\ lp.creates = 1 /\ lp.sandbox # None
          /\ lp.executes = 1 /\ ~lp.caught /\ lp.destroys = 0
     /\ lp'.destroys > lp.destroys => lp.creates = 1 /\ lp.sandbox # None
     /\ lp.destroys > 0 =>
          /\ lp'.creates = lp.creates /\ lp'.executes = lp.executes
          /\ lp'.reads = lp.reads]_vars

(* All four calls were made, several reads among them. *)
C22_Witness ==
  /\ lp.pc = "done" /\ lp.creates = 1 /\ lp.executes = 1
  /\ lp.reads = 3 /\ lp.destroys = 1

(* The input positions whose fetch was fulfilled with an EnrichedSignal.  *)
Fetched(log) ==
  {log[k].i : k \in {q \in 1..Len(log) :
                       log[q].result.status = "fulfilled" /\ log[q].result.value # None}}

(* C23: whatever the order in which the fetches settled, and however each *)
(* of them failed, processSignalWebhook returns (it never throws) the     *)
(* enriched signals of exactly the input positions whose fetch yielded    *)
(* one, in the order of signals_created: the k-th element returned is the *)
(* signal of the k-th such position.                                      *)
C23_InputOrderKept ==
  call.fn = "processSignalWebhook" =>
    /\ Len(call.log) = Len(call.arg) => ENABLED ProcessSignalWebhookReturn \/ call.out # None
    /\ call.out # None =>
         LET ok == Fetched(call.log)
             out == call.out[1]
         IN /\ Len(out) = Cardinality(ok)
            /\ \A p \in ok :
                 out[Cardinality({q \in ok : q <= p})] = FetchedEnriched(call.arg[p])

(* Three fetches settled in the reverse of input order, the middle one    *)
(* failed; the first and the third are returned in input order.           *)
C23_Witness ==
  /\ call.fn = "processSignalWebhook" /\ call.out # None
  /\ call.arg = <<"a", "b", "b">>
  /\ Len(call.log) = 3
  /\ call.log[1].i = 3 /\ call.log[2].i = 2 /\ call.log[3].i = 1
  /\ call.log[2].result.status = "rejected"
  /\ call.out[1] = <<FetchedEnriched("a"), FetchedEnriched("b")>>

(* The positions of entity_ids whose retrieval was fulfilled. *)
FetchedEntities(log) ==
  {log[k].i : k \in {q \in 1..Len(log) : log[q].result.status = "fulfilled"}}

(* C24: a fetchSignal whose signal retrieval failed has returned null; one *)
(* whose retrieval succeeded returns, once its entity retrievals have      *)
(* settled, an EnrichedSignal for that signal whatever subset of them was  *)
(* rejected, and its entities are the fulfilled ones in entity_ids order.  *)
C24_FetchSignalResult ==
  call.fn = "fetchSignal" =>
    /\ call.retrieved = "failed" => call.out = Some(None)
    /\ call.retrieved = "ok" /\ Len(call.log) = Len(call.linktSignal[1].entity_ids) =>
         ENABLED FetchSignalReturn \/ call.out # None
    /\ call.retrieved = "ok" /\ call.out # None =>
         /\ call.out[1] # None
         /\ LET ok == FetchedEntities(call.log)
                es == call.out[1][1]
            IN /\ es.signal.id = call.arg
               /\ es.linktSignal = call.linktSignal
               /\ Len(es.entities) = Cardinality(ok)
               /\ \A p \in ok :
                    es.entities[Cardinality({q \in ok : q <= p})]
                      = EntityOf(call.linktSignal[1].entity_ids[p])

(* The second entity settled first and the first was rejected: the signal *)
(* is returned with the second entity alone.                              *)
C24_Witness ==
  /\ call.fn = "fetchSignal" /\ call.retrieved = "ok" /\ call.out # None
  /\ call.linktSignal[1].entity_ids = <<"e1", "e2">>
  /\ Len(call.log) = 2 /\ call.log[1].i = 2
  /\ call.log[2].result.status = "rejected"
  /\ call.out[1] # None
  /\ call.out[1][1].entities = <<EntityOf("e2")>>

(* The state of a run whose input carried an inline signal: one resolved  *)
(* signal without entities or Linkt signal, no ID waiting to be fetched,  *)
(* the enrichment client not called.                                      *)
ResolvedInline(rn) ==
  /\ rn.pc # "enrich" /\ rn.pending = <<>> /\ ~rn.enriched
  /\ Len(rn.sigs) = 1
  /\ rn.sigs[1].entities = <<>> /\ rn.sigs[1].linktSignal = None

(* C25: a run started with an inline signal, a webhook beside it or not,  *)
(* resolves to exactly that signal with no entities and never reaches the *)
(* enrichment client, at the start and for the rest of the run; a run     *)
(* that reads its webhook or called the client had no inline signal.      *)
C25_InlineSignalFirst ==
  /\ [](\A r \in Runs :
          /\ run[r].pc \notin {"idle", "regen", "notfound"} /\ run[r].kind.signal =>
               ResolvedInline(run[r])
          /\ run[r].pc = "enrich" \/ run[r].enriched =>
               ~run[r].kind.signal /\ run[r].kind.webhook)
  /\ [][\A r \in Runs : \A inp \in Inputs :
          inp.signal # None /\ StartRun(r, inp) =>
            run'[r].sigs = <<InlineEnriched(inp.signal[1])>>]_vars

(* A run given both an inline signal and a webhook payload has returned a *)
(* success for the inline signal without any fetch.                       *)
C25_Witness ==
  \E r \in Runs :
    /\ run[r].pc = "returned"
    /\ run[r].kind.signal /\ run[r].kind.webhook
    /\ run[r].sigs = <<InlineEnriched("a")>>
    /\ ~run[r].enriched
    /\ run[r].result # None /\ run[r].result[1].success

NoDeleteIssued == \A d \in Dels : del[d].pc = "idle"

(* C26: as long as no delete has been issued, however the runs and their  *)
(* store failures interleave, every ID in the index has a stored record.  *)
C26_IndexedAreStored == NoDeleteIssued => \A id \in Keys : Includes(Ids, id) => Stored(id)

(* Two signals indexed with no delete issued, the later one through the   *)
(* catch block (lines 153-154).                                           *)
C26_Witness ==
  /\ NoDeleteIssued
  /\ Ids = <<"b", "a">>
  /\ Stored("a") /\ Stored("b")
  /\ records["b"].data.status = "error"

(* C27: with requests served one at a time and no delete of the signal,   *)
(* a task that has produced its result leaves under 'signal:<id>' a       *)
(* record of status 'generated' when the result says success: true and of *)
(* status 'error' when it says success: false, the failure of the index   *)
(* update after the 'generated' record was written included.              *)
C27_ResultMatchesRecord ==
  \A t \in TaskIds :
    task[t].pc = "ret" /\ NoDeleteOf(task[t].es.signal.id) =>
      LET id == task[t].es.signal.id
          result == TaskResult(task[t])
      IN /\ Stored(id)
         /\ result.success => records[id].data.status = "generated"
         /\ ~result.success => records[id].data.status = "error"

(* The 'generated' record was written, the index update threw, and the    *)
(* task reported the failure over an 'error' record.                      *)
C27_Witness ==
  \E t \in TaskIds :
    /\ task[t].pc = "ret" /\ NoDeleteOf(task[t].es.signal.id)
    /\ ~TaskResult(task[t]).success
    /\ task[t].outreach = "ok" /\ task[t].err = Some(KvError)
    /\ run[t[1]].sets = 2 /\ run[t[1]].isets = 1
    /\ records[task[t].es.signal.id].data.error = KvError

(* C28: a step of the task processing signal X changes no record but the  *)
(* one under 'signal:X', removes neither a record nor the index, and      *)
(* changes the index only by writing X followed by the list the task      *)
(* read, which is the index as it was when the task read it.              *)
C28_TaskFrame ==
  [][\A t \in TaskIds :
       task[t].pc # "idle" /\ task'[t] # task[t] =>
         LET X == task[t].es.signal.id
         IN /\ \A k \in Keys \ {X} : records'[k] = records[k]
            /\ records'[X] # records[X] => task[t].pc = "set" /\ records'[X].exists
            /\ task[t].pc = "iget" /\ task'[t].pc = "iset" =>
                 task'[t].ids = IndexIds(index) /\ ~Includes(task'[t].ids, X)
            /\ index' # index =>
                 /\ task[t].pc = "iset"
                 /\ index'.exists
                 /\ index'.data = <<X>> \o task[t].ids]_vars

(* Signal b was processed on a store that held signal a: b is in front of *)
(* a in the index and a's record is the one it was.                       *)
C28_Witness ==
  \E t \in TaskIds :
    /\ task[t].pc = "ret" /\ task[t].es.signal.id = "b"
    /\ run[t[1]].isets = 1
    /\ index = Found(<<"b", "a">>)
    /\ records["a"] = Found(GeneratedRecord(FetchedEnriched("a"), GeneratedOutreach,
                                            Some(Html)))
    /\ Stored("b")

(* C29: a regenerate request for an ID without a record ends in a 404     *)
(* that changes neither the store nor any task, and such a request never  *)
(* runs the pipeline; one for an ID with a record hands the pipeline the  *)
(* record's signal alone, and when the pipeline has returned, with no     *)
(* other request made, the record keeps the signal and has an empty       *)
(* entity list and no Linkt snapshot, whatever it held before.            *)
C29_RegenerateKeepsSignalOnly ==
  /\ [][\A r \in Runs : \A id \in IDs :
          RegenerateGet(r, id) =>
            /\ records' = records /\ index' = index /\ task' = task
            /\ ~records[id].exists => run'[r].pc = "notfound"
            /\ records[id].exists =>
                 run'[r].pc = "regen" /\ run'[r].pending = <<records[id].data.signal.id>>]_vars
  /\ [](\A r \in Runs :
          /\ run[r].pc = "notfound" =>
               /\ run[r].sigs = <<>> /\ run[r].sets = 0 /\ run[r].isets = 0
               /\ run[r].result = None
               /\ \A t \in TaskIds : t[1] = r => task[t].pc = "idle"
          /\ run[r].kind.regenerate /\ run[r].pc \in {"running", "returned"} =>
               run[r].sigs = <<InlineEnriched(run[r].sigs[1].signal.id)>>
          /\ run[r].kind.regenerate /\ run[r].pc = "returned" /\ Alone(r) =>
               LET id == run[r].sigs[1].signal.id
               IN /\ Stored(id)
                  /\ records[id].data.signal = SignalOf(id)
                  /\ records[id].data.entities = <<>>
                  /\ records[id].data.linktSignal = None)

(* The record of signal a, left by a webhook run with an entity and the   *)
(* Linkt snapshot, was regenerated: the index was not written, the record *)
(* is a generated one without entities and snapshot.                      *)
C29_Witness ==
  \E r \in Runs :
    /\ run[r].kind.regenerate /\ run[r].pc = "returned" /\ Alone(r)
    /\ run[r].sets = 1 /\ run[r].isets = 0
    /\ Ids = <<"a">>
    /\ FetchedEnriched("a").entities # <<>>
    /\ records["a"].data.status = "generated"
    /\ records["a"].data.entities = <<>>
    /\ records["a"].data.linktSignal = None

(* C30: with every awaited call returning or throwing, a run that has     *)
(* started returns a result or raises, and a sandbox that was created     *)
(* receives a destroy call, the one of a landing-page step that was still *)
(* polling when the outreach step failed included.                        *)
C30_Terminates ==
  /\ (run[1].pc \in {"enrich", "running"}) ~> (run[1].pc \in {"returned", "raised"})
  /\ (lp.sandbox # None) ~> (lp.destroys = 1)
  /\ (task[T1].outreach = "threw" /\ lp.pc \in {"poll", "sleep"}) ~>
       (lp.pc = "done" /\ lp.destroys = 1)

(* The run has returned its failure while the landing-page step it left   *)
(* behind went on polling until the time limit; the sandbox was destroyed.*)
C30_Witness ==
  /\ run[1].pc = "returned" /\ ~run[1].result[1].success
  /\ task[T1].landing = "pending"
  /\ lp.pc = "done" /\ lp.creates = 1 /\ lp.destroys = 1
  /\ lp.elapsed >= MAX_WAIT_MS
====
